---- MODULE Spec2Model ----
(***************************************************************************)
(* src/app.py: the Streamlit salary-bracket form.                          *)
(*                                                                         *)
(* A browser session is a sequence of script runs.  Every run executes     *)
(* app.py top to bottom: header, load_model(), load_template_data(),       *)
(* sidebar, form, the "if submitted:" block, footer.  A run is started by  *)
(* opening or re-running the page, by the form's submit button or by the   *)
(* checkbox of the result block.  The two loaders are memoised process-    *)
(* wide by st.cache_resource / st.cache_data; the registry and the CSV     *)
(* file are the environment.                                               *)
(*                                                                         *)
(* Categorical values are coded as small integers (their sort order is the *)
(* order sort_values() uses); a string is a tuple of one-character         *)
(* strings.                                                                *)
(***************************************************************************)
EXTENDS Integers, Sequences, FiniteSets, TLC

VARIABLES modelCache, dataCache, queryTick,
          pc, trigger, choice, model, view, everFatal, prevPredFailed,
          salario_pred, label_out

vars == <<modelCache, dataCache, queryTick,
          pc, trigger, choice, model, view, everFatal, prevPredFailed,
          salario_pred, label_out>>

(* ------------------------------ bounds --------------------------------- *)
MaxRows == 2
MaxVersion == 2
MaxLabelLen == 5

(* -------------------------- program constants -------------------------- *)
DefaultIdade == 30
MaxIdade == 100

Sessions == {"s1", "s2"}
Versions == 1..MaxVersion

(* ------------------------------ strings -------------------------------- *)
Alphabet == {"-", " ", "R"}
Separator == <<"-", " ">>

(* the labels of the classifier: non-empty texts *)
Strings == UNION {[1..n -> Alphabet] : n \in 1..MaxLabelLen}

SubStr(s, i, j) == [k \in 1..(j - i + 1) |-> s[i + k - 1]]

OccursAt(s, sep, i) ==
    /\ i >= 1
    /\ i + Len(sep) - 1 <= Len(s)
    /\ SubStr(s, i, i + Len(sep) - 1) = sep

Occurrences(s, sep) == {i \in 1..Len(s) : OccursAt(s, sep, i)}

MinOf(S) == CHOOSE x \in S : \A y \in S : x <= y
MaxOf(S) == CHOOSE x \in S : \A y \in S : x >= y

(* str.split(sep): scan left to right, cut at each occurrence found, resume
   after it. *)
RECURSIVE split(_, _)
split(s, sep) ==
    IF Occurrences(s, sep) = {}
    THEN <<s>>
    ELSE LET i == MinOf(Occurrences(s, sep))
         IN  <<SubStr(s, 1, i - 1)>> \o split(SubStr(s, i + Len(sep), Len(s)), sep)

(* the text after the first separator: split("- ", 1)[-1] *)
salario_limpo_first(label) ==
    IF Occurrences(label, Separator) = {} THEN label
    ELSE SubStr(label, MinOf(Occurrences(label, Separator)) + Len(Separator), Len(label))

(* salario_pred.split("- ")[-1] *)
salario_limpo(label) ==
    LET parts == split(label, Separator) IN parts[Len(parts)]

(* --------------------------- the environment --------------------------- *)
(* The registry and the CSV file are read at one place each; what they hold
   at that moment is an input of the step that reads them. *)
(* Two kinds of row of data/template.csv; the columns the form and the
   statistics read. *)
RowA == [idade |-> 25, genero |-> 1, nivel |-> 1, ufOndeMora |-> 1, cargoAtual |-> 1]
RowB == [idade |-> 40, genero |-> 2, nivel |-> 2, ufOndeMora |-> 2, cargoAtual |-> 2]
Rows == {RowA, RowB}

Datasets == UNION {[1..n -> Rows] : n \in 0..MaxRows}

(* data/template.csv: missing, unparsable, or a table (possibly header only) *)
Files == {[status |-> "missing", rows |-> <<>>], [status |-> "corrupt", rows |-> <<>>]}
         \cup {[status |-> "ok", rows |-> d] : d \in Datasets}

(* the MLflow registry: unreachable or failing ("broken"), without the model
   ("absent"), or holding salario-model with its latest_versions *)
Registries == {[status |-> "broken", latest_versions |-> {}],
               [status |-> "absent", latest_versions |-> {}]}
              \cup {[status |-> "ok", latest_versions |-> V] : V \in SUBSET Versions}

(* what model.predict and the lines around it can do in one submission *)
Faults == {"none", "features", "predict", "label_type"}
RunLabels == {<<"R", "-", " ", "R">>, <<"R">>}

(* ------------------------------ load_model ----------------------------- *)
(* The body of load_model.  st.stop() raises a script-control exception that
   "except Exception" does not catch, so both failure paths end the run. *)
load_model_body(reg) ==
    IF reg.status = "broken"
    THEN [ok |-> FALSE, error |-> "model_load_error", version |-> 0]
    ELSE IF reg.status = "absent"
    THEN [ok |-> FALSE, error |-> "model_not_found", version |-> 0]
    ELSE IF reg.latest_versions = {}
    THEN [ok |-> FALSE, error |-> "model_load_error", version |-> 0]
    ELSE [ok |-> TRUE, error |-> "none", version |-> MaxOf(reg.latest_versions)]

(* ------------------------- load_template_data -------------------------- *)
(* the loader without its st.stop(): the error is shown and the run goes on *)
load_template_data_no_stop(f) ==
    [ok |-> TRUE, error |-> "none", rows |-> IF f.status = "ok" THEN f.rows ELSE <<>>]

load_template_data_body(f) ==
    IF f.status = "missing"
    THEN [ok |-> FALSE, error |-> "file_not_found", rows |-> <<>>]
    ELSE IF f.status = "corrupt"
    THEN [ok |-> FALSE, error |-> "data_load_error", rows |-> <<>>]
    ELSE [ok |-> TRUE, error |-> "none", rows |-> f.rows]

(* ---------------------------- the decorators --------------------------- *)
(* @st.cache_resource(ttl='1day') and @st.cache_data(ttl='1hour') keep one
   entry per function, shared by every session of the process.  A call reads
   the entry; on a miss it takes the entry's compute lock, reads again, and
   only then runs the function body and stores what it returned.  An entry
   older than its ttl is dropped (ModelCacheExpire, DataCacheExpire); how much
   time passes between two steps is not constrained, so an entry may expire
   between any two of them. *)
NoModelEntry == [present |-> FALSE, version |-> 0]
NoDataEntry == [present |-> FALSE, rows |-> <<>>]

(* a cache that keeps the failed call as its entry *)
cache_resource_store_failure(cache, result) ==
    [present |-> TRUE, version |-> result.version]

(* a compute step that does not read the cache again *)
cache_resource_no_recheck(cache) == FALSE

(* What the cache holds after the decorated function ran: its return value;
   a call that raised (st.stop) stores nothing. *)
cache_resource_store(cache, result) ==
    IF result.ok THEN [present |-> TRUE, version |-> result.version] ELSE cache

cache_data_store(cache, result) ==
    IF result.ok THEN [present |-> TRUE, rows |-> result.rows] ELSE cache

(* Under the per-key compute lock the cache is read again before the
   function body runs. *)
cache_resource_recheck(cache) == cache.present

(* -------------------------------- pandas ------------------------------- *)
Column(data, c) == [i \in 1..Len(data) |-> data[i][c]]

Values(seq) == {seq[i] : i \in 1..Len(seq)}

(* Series.unique(): the distinct values in order of first appearance *)
RECURSIVE unique(_)
unique(seq) ==
    IF seq = <<>> THEN <<>>
    ELSE LET init == unique(SubSeq(seq, 1, Len(seq) - 1))
             last == seq[Len(seq)]
         IN  IF last \in Values(init) THEN init ELSE Append(init, last)

(* Series.sort_values() *)
RECURSIVE sort_values(_)
sort_values(seq) ==
    IF seq = <<>> THEN <<>>
    ELSE LET m == MinOf(Values(seq))
             i == MinOf({k \in 1..Len(seq) : seq[k] = m})
         IN  <<m>> \o sort_values(SubSeq(seq, 1, i - 1) \o SubSeq(seq, i + 1, Len(seq)))

(* -------------------------------- the form ----------------------------- *)
NoOptions == [genero |-> <<>>, ufOndeMora |-> <<>>, cargoAtual |-> <<>>, nivel |-> <<>>]
NoIdx == [genero |-> 0, ufOndeMora |-> 0, cargoAtual |-> 0, nivel |-> 0]
NoUserData == [genero |-> 0, ufOndeMora |-> 0, cargoAtual |-> 0, nivel |-> 0]
Categorical == {"genero", "ufOndeMora", "cargoAtual", "nivel"}

(* the options of the selectboxes *)
FormOptions(data) ==
    [genero     |-> unique(Column(data, "genero")),
     ufOndeMora |-> unique(sort_values(Column(data, "ufOndeMora"))),
     cargoAtual |-> unique(sort_values(Column(data, "cargoAtual"))),
     nivel      |-> unique(sort_values(Column(data, "nivel")))]

(* st.number_input("Idade", min_value=int(data["idade"].min()), max_value=100,
   value=30): int(nan) raises on a table without rows, and a default below
   min_value is refused by the widget. *)
number_input(data) ==
    IF Len(data) = 0 THEN "ValueError"
    ELSE IF DefaultIdade < MinOf(Values(Column(data, "idade"))) \/ DefaultIdade > MaxIdade
    THEN "StreamlitAPIException"
    ELSE "ok"

(* a selectbox that returns the value picked on the page as it was shown *)
selectbox_stale(options, shown, idx) ==
    IF idx \in 1..Len(shown) THEN shown[idx] ELSE 0

(* st.selectbox(options=...): the browser sent the index chosen among the
   options the widget had (shown, idx); a widget whose options changed is a
   new widget and returns its default, the first option. *)
selectbox(options, shown, idx) ==
    IF options = <<>> THEN 0
    ELSE IF options = shown /\ idx \in 1..Len(options) THEN options[idx]
    ELSE options[1]

(* ------------------------- contextual statistics ----------------------- *)
RECURSIVE Filter(_, _)
Filter(data, mask) ==
    IF data = <<>> THEN <<>>
    ELSE LET rest == Filter(SubSeq(data, 1, Len(data) - 1), SubSeq(mask, 1, Len(data) - 1))
         IN  IF mask[Len(data)] THEN Append(rest, data[Len(data)]) ELSE rest

(* the mask built with | in place of & *)
similar_profiles_or(data, nivel, uf) ==
    Filter(data, [i \in 1..Len(data) |->
                    data[i].nivel = nivel \/ data[i].ufOndeMora = uf])

(* data_template[(nivel == nivel) & (ufOndeMora == uf)] *)
similar_profiles(data, nivel, uf) ==
    Filter(data, [i \in 1..Len(data) |->
                    data[i].nivel = nivel /\ data[i].ufOndeMora = uf])

cargo_count(data, cargo) ==
    Len(Filter(data, [i \in 1..Len(data) |-> data[i].cargoAtual = cargo]))

(* f"{x:.1f}" of x = n / d * 100, as a number of tenths (ties to even) *)
Tenths(n, d) ==
    LET q == (n * 1000) \div d
        r == (n * 1000) % d
    IN  IF 2 * r < d THEN q
        ELSE IF 2 * r > d THEN q + 1
        ELSE IF q % 2 = 0 THEN q ELSE q + 1

(* (cargo_count / len(data_template)) * 100: the division raises on a table
   without rows *)
cargo_percentage(data, cargo) ==
    IF Len(data) = 0
    THEN [raised |-> TRUE, tenths |-> -1]
    ELSE [raised |-> FALSE, tenths |-> Tenths(cargo_count(data, cargo), Len(data))]

(* --------------------------- the result block -------------------------- *)
(* Lines 217-276, the statements inside "try:", up to the first one that
   raises.  fault is what goes wrong in this submission: "features" is
   user_data[model.feature_names_in_] raising, "predict" is model.predict
   raising, "label_type" is a label without .split. *)
try_body(data, user_data, fault, label, checkbox_value) ==
    LET pct == cargo_percentage(data, user_data.cargoAtual)
        similar == Len(similar_profiles(data, user_data.nivel, user_data.ufOndeMora))
    IN  IF fault # "none"
        THEN [predicted |-> fault # "features", success |-> FALSE, bracket |-> <<>>,
              similar |-> -1, share |-> -1, checkbox |-> FALSE, chart |-> FALSE,
              raised |-> TRUE]
        ELSE IF pct.raised
        THEN [predicted |-> TRUE, success |-> TRUE, bracket |-> salario_limpo(label),
              similar |-> similar, share |-> -1, checkbox |-> FALSE, chart |-> FALSE,
              raised |-> TRUE]
        ELSE [predicted |-> TRUE, success |-> TRUE, bracket |-> salario_limpo(label),
              similar |-> similar, share |-> pct.tenths, checkbox |-> TRUE,
              chart |-> checkbox_value, raised |-> FALSE]

(* the block without its except clause *)
prediction_block_no_except(data, user_data, fault, label, checkbox_value) ==
    LET r == try_body(data, user_data, fault, label, checkbox_value)
    IN  [result |-> r, error |-> "none", logged |-> FALSE,
         exception |-> IF r.raised THEN "Exception" ELSE "none"]

(* "try: ... except Exception as e: st.error(...); logger.error(...)" *)
prediction_block(data, user_data, fault, label, checkbox_value) ==
    LET r == try_body(data, user_data, fault, label, checkbox_value)
    IN  [result |-> r,
         error |-> IF r.raised THEN "prediction_error" ELSE "none",
         logged |-> r.raised,
         exception |-> "none"]

NoResult == [predicted |-> FALSE, success |-> FALSE, bracket |-> <<>>,
             similar |-> -1, share |-> -1, checkbox |-> FALSE, chart |-> FALSE,
             raised |-> FALSE]

(* ------------------------------ a script run --------------------------- *)
(* What one run put on the page.  outcome: "stopped" is st.stop(), "crashed"
   an exception that left the script, "done" the footer was reached. *)
BlankView == [outcome |-> "none", error |-> "none", exception |-> "none",
              logged |-> FALSE, model_version |-> 0, data |-> <<>>,
              registry_seen |-> "none", file_seen |-> "none",
              form |-> FALSE, options |-> NoOptions, submitted |-> FALSE,
              user_data |-> NoUserData, fault |-> "none", result |-> NoResult,
              footer |-> FALSE, reloaded |-> FALSE, afterFailure |-> FALSE]

(* what load_model() returned to the run, how (via: "hit" the first read of
   the cache, "recheck" the read under the lock, "loaded" the function body)
   and what the registry answered (seen) *)
NoModel == [version |-> 0, via |-> "none", seen |-> "none"]

Seen(reg) == IF reg.status = "ok" /\ reg.latest_versions = {} THEN "no_versions"
             ELSE reg.status

NoChoice == [shown |-> NoOptions, idx |-> NoIdx, checkbox |-> FALSE]

StoppedView(err, m, file_seen) ==
    [BlankView EXCEPT !.outcome = "stopped", !.error = err,
                      !.registry_seen = m.seen, !.file_seen = file_seen]

(* the profile record assembled from the widgets (lines 204-213) *)
UserData(options, ch) ==
    [c \in Categorical |-> selectbox(options[c], ch.shown[c], ch.idx[c])]

TypeOK ==
    /\ modelCache.present \in BOOLEAN
    /\ dataCache.present \in BOOLEAN
    /\ queryTick \in {0, 1}
    /\ pc \in [Sessions -> {"idle", "lookup", "miss", "body"}]
    /\ trigger \in [Sessions -> {"none", "rerun", "submit", "checkbox"}]
    /\ \A s \in Sessions : model[s].version \in 0..MaxVersion
    /\ everFatal \in [Sessions -> BOOLEAN]
    /\ prevPredFailed \in [Sessions -> BOOLEAN]

InitApp ==
    /\ modelCache = NoModelEntry
    /\ dataCache = NoDataEntry
    /\ queryTick = 0
    /\ pc = [s \in Sessions |-> "idle"]
    /\ trigger = [s \in Sessions |-> "none"]
    /\ choice = [s \in Sessions |-> NoChoice]
    /\ model = [s \in Sessions |-> NoModel]
    /\ view = [s \in Sessions |-> BlankView]
    /\ everFatal = [s \in Sessions |-> FALSE]
    /\ prevPredFailed = [s \in Sessions |-> FALSE]

Init ==
    /\ InitApp
    /\ salario_pred = <<>>
    /\ label_out = [done |-> FALSE, bracket |-> <<>>]

envVars == <<modelCache, dataCache, queryTick>>
labelVars == <<salario_pred, label_out>>

StartRun(s, t, ch) ==
    /\ pc[s] = "idle"
    /\ pc' = [pc EXCEPT ![s] = "lookup"]
    /\ trigger' = [trigger EXCEPT ![s] = t]
    /\ choice' = [choice EXCEPT ![s] = ch]
    /\ view' = [view EXCEPT ![s] = BlankView]
    /\ UNCHANGED <<envVars, model, everFatal, prevPredFailed, labelVars>>

(* the page is opened, or re-run from the app menu *)
Rerun(s) == StartRun(s, "rerun", NoChoice)

(* the submit button of the form the last run rendered is clicked; the
   browser sends the index chosen in each selectbox *)
Submit(s) ==
    /\ view[s].form
    /\ \E i \in [Categorical -> 1..MaxRows] :
          /\ \A c \in Categorical : i[c] <= Len(view[s].options[c])
          /\ StartRun(s, "submit", [shown |-> view[s].options, idx |-> i, checkbox |-> FALSE])

(* the checkbox the last run rendered is ticked; a widget that a run does not
   render loses its state, so a rendered checkbox always shows value=False
   until this click *)
ToggleCheckbox(s) ==
    /\ view[s].result.checkbox
    /\ StartRun(s, "checkbox", [NoChoice EXCEPT !.checkbox = TRUE])

(* load_model(): the first read of the cache *)
LoadModelLookup(s) ==
    /\ pc[s] = "lookup"
    /\ IF modelCache.present
       THEN /\ model' = [model EXCEPT ![s] =
                          [version |-> modelCache.version, via |-> "hit", seen |-> "cached"]]
            /\ pc' = [pc EXCEPT ![s] = "body"]
       ELSE /\ pc' = [pc EXCEPT ![s] = "miss"]
            /\ UNCHANGED model
    /\ UNCHANGED <<envVars, trigger, choice, view, everFatal, prevPredFailed, labelVars>>

(* load_model() after a miss: under the compute lock, read again, and run
   the function body if the entry is still missing *)
LoadModelCompute(s) ==
    /\ pc[s] = "miss"
    /\ IF cache_resource_recheck(modelCache)
       THEN /\ model' = [model EXCEPT ![s] =
                          [version |-> modelCache.version, via |-> "recheck", seen |-> "cached"]]
            /\ pc' = [pc EXCEPT ![s] = "body"]
            /\ UNCHANGED <<modelCache, queryTick, view, everFatal>>
       ELSE \E registry \in Registries :
            LET res == load_model_body(registry)
            IN  /\ queryTick' = 1 - queryTick
                /\ modelCache' = cache_resource_store(modelCache, res)
                /\ IF res.ok
                   THEN /\ pc' = [pc EXCEPT ![s] = "body"]
                        /\ model' = [model EXCEPT ![s] =
                                      [version |-> res.version, via |-> "loaded",
                                       seen |-> Seen(registry)]]
                        /\ UNCHANGED <<view, everFatal>>
                   ELSE /\ pc' = [pc EXCEPT ![s] = "idle"]
                        /\ model' = [model EXCEPT ![s] = NoModel]
                        /\ view' = [view EXCEPT ![s] =
                                     StoppedView(res.error,
                                                 [NoModel EXCEPT !.seen = Seen(registry)],
                                                 "none")]
                        /\ everFatal' = [everFatal EXCEPT ![s] = TRUE]
    /\ UNCHANGED <<dataCache, trigger, choice, prevPredFailed, labelVars>>

(* what the rest of the script renders once both loaders returned: sidebar,
   form, the "if submitted:" block, footer *)
RunView(s, data, file_seen, fault, label) ==
    LET submitted == trigger[s] = "submit"
        options == FormOptions(data)
        ud == UserData(options, choice[s])
        blk == prediction_block(data, ud, fault, label, choice[s].checkbox)
        base == [BlankView EXCEPT !.model_version = model[s].version, !.data = data,
                                  !.registry_seen = model[s].seen,
                                  !.file_seen = file_seen]
    IN  IF number_input(data) # "ok"
        THEN [base EXCEPT !.outcome = "crashed", !.exception = number_input(data)]
        ELSE IF ~submitted
        THEN [base EXCEPT !.outcome = "done", !.form = TRUE, !.options = options,
                          !.footer = TRUE]
        ELSE [base EXCEPT !.outcome = IF blk.exception = "none" THEN "done" ELSE "crashed",
                          !.form = TRUE, !.options = options, !.submitted = TRUE,
                          !.user_data = ud, !.fault = fault, !.result = blk.result,
                          !.error = blk.error, !.logged = blk.logged,
                          !.exception = blk.exception,
                          !.footer = (blk.exception = "none"),
                          !.reloaded = (options # choice[s].shown),
                          !.afterFailure = prevPredFailed[s]]

(* the rest of the script, from load_template_data() on; files are the states
   the CSV file may be in when it is read *)
RunBody(s, files) ==
    /\ pc[s] = "body"
    /\ \E file \in (IF dataCache.present THEN {[status |-> "ok", rows |-> dataCache.rows]}
                    ELSE files) :
       LET res == IF dataCache.present
                  THEN [ok |-> TRUE, error |-> "none", rows |-> dataCache.rows]
                  ELSE load_template_data_body(file)
           file_seen == IF dataCache.present THEN "cached" ELSE file.status
       IN  /\ dataCache' = cache_data_store(dataCache, res)
           /\ IF ~res.ok
              THEN /\ view' = [view EXCEPT ![s] = StoppedView(res.error, model[s], file_seen)]
                   /\ everFatal' = [everFatal EXCEPT ![s] = TRUE]
                   /\ UNCHANGED prevPredFailed
              ELSE /\ \E fault \in (IF trigger[s] = "submit" /\ number_input(res.rows) = "ok"
                                    THEN Faults ELSE {"none"}) :
                      \E label \in (IF trigger[s] = "submit" /\ number_input(res.rows) = "ok"
                                       /\ fault = "none"
                                    THEN RunLabels ELSE {<<>>}) :
                         /\ view' = [view EXCEPT ![s] =
                                     RunView(s, res.rows, file_seen, fault, label)]
                         /\ prevPredFailed' =
                              [prevPredFailed EXCEPT ![s] =
                                 IF view'[s].submitted THEN view'[s].result.raised ELSE @]
                   /\ UNCHANGED everFatal
    /\ pc' = [pc EXCEPT ![s] = "idle"]
    /\ model' = [model EXCEPT ![s] = NoModel]
    /\ choice' = [choice EXCEPT ![s] = NoChoice]
    /\ UNCHANGED <<modelCache, queryTick, trigger, labelVars>>

(* ----------------------------- environment ----------------------------- *)
(* ttl='1day' has passed since the entry was stored *)
ModelCacheExpire ==
    /\ modelCache.present
    /\ modelCache' = NoModelEntry
    /\ UNCHANGED <<dataCache, queryTick, pc, trigger, choice, model,
                   view, everFatal, prevPredFailed, labelVars>>

(* ttl='1hour' has passed since the entry was stored *)
DataCacheExpire ==
    /\ dataCache.present
    /\ dataCache' = NoDataEntry
    /\ UNCHANGED <<modelCache, queryTick, pc, trigger, choice, model,
                   view, everFatal, prevPredFailed, labelVars>>

(* one browser session, every interaction *)
User == "s1"

Next ==
    \/ Rerun(User)
    \/ Submit(User)
    \/ ToggleCheckbox(User)
    \/ LoadModelLookup(User)
    \/ LoadModelCompute(User)
    \/ RunBody(User, Files)
    \/ ModelCacheExpire
    \/ DataCacheExpire

Spec == Init /\ [][Next]_vars

(* several sessions that open and re-run the page concurrently; the CSV file
   is missing or holds one table *)
ConcFiles == {[status |-> "missing", rows |-> <<>>], [status |-> "ok", rows |-> <<RowA>>]}

NextConc ==
    \E s \in Sessions :
        \/ Rerun(s)
        \/ LoadModelLookup(s)
        \/ LoadModelCompute(s)
        \/ RunBody(s, ConcFiles)
        \/ ModelCacheExpire
        \/ DataCacheExpire

SpecConc == Init /\ [][NextConc]_vars

(* the post-processing of the label, on every label up to MaxLabelLen *)
InitLabel ==
    /\ InitApp
    /\ salario_pred \in Strings
    /\ label_out = [done |-> FALSE, bracket |-> <<>>]

appVars == <<modelCache, dataCache, queryTick, pc, trigger, choice, model, view,
             everFatal, prevPredFailed>>

PostProcess ==
    /\ ~label_out.done
    /\ label_out' = [done |-> TRUE, bracket |-> salario_limpo(salario_pred)]
    /\ UNCHANGED <<salario_pred, appVars>>

NextPrediction ==
    /\ label_out.done
    /\ salario_pred' \in Strings
    /\ label_out' = [done |-> FALSE, bracket |-> <<>>]
    /\ UNCHANGED appVars

NextLabel == PostProcess \/ NextPrediction

SpecLabel == InitLabel /\ [][NextLabel]_vars

(* ------------------------------- claims -------------------------------- *)
Completed(s) == pc[s] = "idle" /\ view[s].outcome # "none"

LoadErrors == {"model_not_found", "model_load_error", "file_not_found", "data_load_error"}

(* a loader failed in the run that produced view v *)
LoadFailedInRun(v) ==
    \/ v.registry_seen \in {"absent", "broken", "no_versions"}
    \/ v.file_seen \in {"missing", "corrupt"}

(* C1: a failure inside the submission block (feature selection, predict,
   label post-processing, statistics) is caught there: the error is shown and
   logged, the run reaches the footer, and a submission without a failure is
   rendered in full whatever happened to the submission before it. *)
C1_PredictionFailureContained ==
    LET v == view[User]
    IN  (Completed(User) /\ v.submitted) =>
          /\ v.outcome = "done" /\ v.footer /\ v.exception = "none"
          /\ (v.result.raised => v.error = "prediction_error" /\ v.logged)
          /\ (v.fault = "none" =>
                /\ v.result.success /\ v.result.similar >= 0 /\ v.result.share >= 0
                /\ v.error = "none" /\ ~v.logged)

C1_Witness ==
    /\ Completed(User) /\ view[User].submitted
    /\ view[User].afterFailure
    /\ view[User].result.success /\ ~view[User].result.raised

(* the text after the last occurrence of the separator, or the whole text *)
AfterLastSeparator(t) ==
    IF Occurrences(t, Separator) = {} THEN t
    ELSE SubStr(t, MaxOf(Occurrences(t, Separator)) + Len(Separator), Len(t))

(* C2: the displayed bracket is the text that follows the last occurrence of
   "- " in the label, and the whole label when "- " does not occur. *)
C2_BracketAfterLastSeparator ==
    label_out.done => label_out.bracket = AfterLastSeparator(salario_pred)

C2_Witness ==
    /\ label_out.done
    /\ Cardinality(Occurrences(salario_pred, Separator)) >= 2
    /\ label_out.bracket # <<>>
    /\ label_out.bracket # salario_pred

(* C3 as stated: the bracket is non-empty and does not contain "- ". *)
C3_BracketNonEmptyNoSeparator ==
    label_out.done =>
        /\ label_out.bracket # <<>>
        /\ Occurrences(label_out.bracket, Separator) = {}

(* C4 as stated: job_share, when shown, is within 0..100 per cent, and a
   submission against a table without rows shows job_share 0 and raises
   nothing. *)
C4_JobShareGuarded ==
    LET v == view[User]
    IN  (Completed(User) /\ trigger[User] = "submit" /\ v.outcome # "stopped") =>
          /\ (v.result.share # -1 => v.result.share \in 0..1000)
          /\ (Len(v.data) = 0 =>
                v.exception = "none" /\ v.error = "none" /\ v.result.share = 0)

(* C5: similar_count is the number of rows with the profile's seniority and
   the profile's state, between 0 and the number of rows; it is shown, as 0,
   when no row matches. *)
C5_SimilarCount ==
    LET v == view[User]
        matching == {i \in 1..Len(v.data) :
                        /\ v.data[i].nivel = v.user_data.nivel
                        /\ v.data[i].ufOndeMora = v.user_data.ufOndeMora}
    IN  (Completed(User) /\ v.submitted) =>
          /\ (v.fault = "none" => v.result.similar # -1)
          /\ (v.result.similar # -1 =>
                /\ v.result.similar = Cardinality(matching)
                /\ v.result.similar >= 0
                /\ v.result.similar <= Len(v.data))

C5_Witness ==
    /\ Completed(User) /\ view[User].submitted
    /\ view[User].result.similar = 0
    /\ view[User].result.share > 0
    /\ view[User].outcome = "done"

(* C6: a run in which load_model finds no model or raises, or in which
   load_template_data finds no file or cannot parse it, shows the error and
   stops there: no form, no submission processed, no prediction, no footer. *)
C6_LoadFailureHaltsRun ==
    LET v == view[User]
    IN  (Completed(User) /\ LoadFailedInRun(v)) =>
          /\ v.outcome = "stopped"
          /\ v.error \in LoadErrors
          /\ ~v.form /\ ~v.submitted /\ ~v.result.predicted /\ ~v.footer

C6_Witness ==
    /\ Completed(User)
    /\ trigger[User] = "submit"
    /\ view[User].file_seen = "missing"
    /\ view[User].registry_seen = "cached"
    /\ view[User].outcome = "stopped"

(* C7 as stated: once a load failure was reported in a session, no later run
   of that session renders the form or invokes the predictor. *)
C7_FatalForSession ==
    everFatal[User] => (~view[User].form /\ ~view[User].result.predicted)

(* C7 amended: a load failure stops the run in which it happens and nothing
   else: a run stops exactly when one of its own loads failed, and a run whose
   loads returned a model and a table the form accepts renders the form, also
   after an earlier run of the session was stopped. *)
C7_FatalForRunOnly ==
    LET v == view[User]
    IN  Completed(User) =>
          /\ (v.outcome = "stopped" <=> LoadFailedInRun(v))
          /\ (~LoadFailedInRun(v) =>
                /\ v.model_version \in Versions
                /\ (number_input(v.data) = "ok" => v.form /\ v.outcome = "done"))

C7_Witness ==
    /\ Completed(User)
    /\ everFatal[User]
    /\ view[User].form /\ view[User].submitted /\ view[User].result.success

(* C8: while the cache holds a loaded model, every load_model call that
   returns, in any session, returns the cached version, leaves the entry as it
   is and does not query the registry. *)
C8_OneLoadPerWindow ==
    [][\A s \in Sessions :
          (modelCache.present /\ pc[s] \in {"lookup", "miss"} /\ pc'[s] # pc[s]) =>
             /\ pc'[s] = "body"
             /\ model'[s].version = modelCache.version
             /\ modelCache' = modelCache
             /\ queryTick' = queryTick]_vars

C8_Witness ==
    /\ pc["s1"] = "body" /\ pc["s2"] = "body"
    /\ model["s1"].via = "loaded" /\ model["s2"].via = "recheck"
    /\ modelCache.present
    /\ model["s1"].version = modelCache.version
    /\ model["s2"].version = modelCache.version

(* C9: in every run that renders the form, each option of each selectbox and
   each categorical value of the submitted profile occurs in the same column
   of the table that run uses, also when the table was reloaded since the
   form was shown. *)
C9_ValuesFromDataset ==
    LET v == view[User]
    IN  (Completed(User) /\ v.form) =>
          \A c \in Categorical :
             /\ Values(v.options[c]) \subseteq Values(Column(v.data, c))
             /\ Values(v.options[c]) # {}
             /\ (v.submitted => v.user_data[c] \in Values(Column(v.data, c)))

C9_Witness ==
    /\ Completed(User) /\ view[User].submitted
    /\ view[User].reloaded
    /\ view[User].result.success
    /\ \E c \in Categorical : Len(view[User].options[c]) >= 2

(* C10 as stated: the run started by ticking the checkbox after a successful
   submission shows the chart with the bracket and the statistics. *)
C10_ChartWithResult ==
    LET v == view[User]
    IN  (Completed(User) /\ trigger[User] = "checkbox" /\ v.outcome = "done") =>
          /\ v.result.chart
          /\ v.result.success
          /\ v.result.similar >= 0 /\ v.result.share >= 0

====
